---- MODULE Spec2Model ----
(***************************************************************************)
(* liam-esp: the mower's StateController, the REST/MQTT handlers of Api    *)
(* that drive it, the periodic tick of the active state, the Timer, and    *)
(* the orientation estimator IO_Accelerometer.                             *)
(*                                                                         *)
(* The controller, the Timer and the handlers are translated from          *)
(* src/src/state_controller.cpp and src/src/api.cpp, the accelerometer     *)
(* from src/unnamed/part_000.  The state units themselves (states/*.h),    *)
(* the main loop that ticks them, StateController::setUserChangableState,  *)
(* Utils::calculateMedian and the constants of definitions.h are not among *)
(* the sources: they are modelled from the specification and marked so     *)
(* where they are defined.                                                 *)
(*                                                                         *)
(* Several specifications share the variables, each holding the others'   *)
(* fixed: Spec (controller, tick and handlers), SpecStateApi (the state    *)
(* requests alone), SpecTimer (the Timer), SpecImu (start() and the        *)
(* sampling of the accelerometer), SpecImuRace (the stores of getReadings  *)
(* beside a reader), SpecPush and SpecPushRate (the status push of Api and *)
(* its MQTT limit).                                                        *)
(***************************************************************************)
EXTENDS Integers, Sequences, FiniteSets, TLC

VARIABLES
  stateLookup,          \* StateController::stateLookup: kind -> unit pointer
  currentStateInstance, \* StateController::currentStateInstance
  hookCalls,            \* onExit/onEnter/publish calls of the latest setState
  tickUnit,             \* the unit an in-flight tick was dispatched to
  panicked,             \* the firmware trapped on a null dereference
  available,            \* IO_Accelerometer::available
  currentOrientation,   \* IO_Accelerometer::currentOrientation
  wheel,                \* last command given to the wheel controller
  cutter,               \* last command given to the cutter
  httpResponse,         \* the latest HTTP response sent
  previousMillis,       \* Timer::previousMillis
  realTime,             \* milliseconds since boot, as a clock without width
  markTime,             \* the realTime at which previousMillis was last set
  timerCall,            \* the latest Timer call: operation, argument, result
  startPc,              \* where IO_Accelerometer::start() is
  primed,               \* the priming loop's counter i
  tickerAttached,       \* sensorReadingTicker is attached
  imu,                  \* the sensor library's registers ax, ay, az, mx, my
  samples,              \* ax_sample .. my_sample, the median windows
  medianIndex,          \* IO_Accelerometer::medianIndex
  streak,               \* consecutive samples taken with the same registers
  writePc,              \* the store of getReadings the sampling task is at
  computed,             \* getReadings' locals roll, pitch, yaw, rounded
  published,            \* the orientation of the latest finished sample
  orientCopy,           \* a reader's copy of getOrientation()
  orientSamples,        \* the finished or computed samples when it was copied
  currentStatus,        \* Api::currentStatus, the cached status
  lastMQTT_push,        \* Api::lastMQTT_push
  uptime,               \* esp_timer_get_time() / 1000000, seconds since boot
  subsystems,           \* what battery, cutter, wheels and WiFi report now
  pushed,               \* what the latest collectAndPushNewStatus sent
  mqttLog               \* the uptimes of the latest two /status publications

vars == <<stateLookup, currentStateInstance, hookCalls, tickUnit, panicked, available, currentOrientation, wheel, cutter,
          httpResponse>>

controllerVars == <<stateLookup, currentStateInstance, hookCalls>>
sensorVars == <<available, currentOrientation>>
actuatorVars == <<wheel, cutter>>
timerVars == <<previousMillis, realTime, markTime, timerCall>>
imuVars == <<startPc, primed, tickerAttached, imu, samples, medianIndex, streak>>
raceVars == <<writePc, computed, published, orientCopy, orientSamples>>
pushVars == <<currentStatus, lastMQTT_push, uptime, subsystems, pushed, mqttLog>>

-----------------------------------------------------------------------------
(* Definitions::MOWER_STATES and the units of the table                    *)

\* The kinds the constructor builds a unit for.
ConstructedKinds ==
  {"Docked", "Launching", "Mowing", "Docking", "Charging", "Stuck", "Flipped",
   "Paused", "Demo"}

\* The closed enumeration: the constructed kinds, MANUAL (used by the manual
\* endpoints) and TEST (the example body of PUT /api/v1/state).
Kinds == ConstructedKinds \cup {"Manual", "Test"}

\* A pointer to the unit built for kind k, and the null pointer.
Unit(k) == [unit |-> k]
NullPtr == [unit |-> "nullptr"]
Units == {Unit(k) : k \in Kinds}

\* The table as the constructor leaves it before its setState(initialState).
ConstructedTable == [k \in ConstructedKinds |-> Unit(k)]

\* stateLookup[newState] of a map: a missing key is inserted with a
\* value-initialised (null) pointer, and the mapped value is returned.
LookupInsert(table, k) ==
  [x \in (DOMAIN table) \cup {k} |->
     IF x \in DOMAIN table THEN table[x] ELSE NullPtr]

\* StateController::getStateInstance
getStateInstance == currentStateInstance

-----------------------------------------------------------------------------
(* StateController::setState                                               *)

\* The hooks setState invokes around the swap, in order: none.
setStateHooks(from, to) == <<>>

\* The pointer setState stores for newState, given the table after the lookup.
setStateTarget(table, newState) == table[newState]

\* The messages setState publishes after the swap, in order: none (the
\* publish_message call is commented out).
setStatePublishes(newState) == <<>>

setState(newState) ==
  /\ stateLookup' = LookupInsert(stateLookup, newState)
  /\ currentStateInstance' = setStateTarget(stateLookup', newState)
  /\ hookCalls' = setStateHooks(currentStateInstance, currentStateInstance')
                    \o setStatePublishes(newState)

-----------------------------------------------------------------------------
(* IO_Accelerometer                                                        *)

TILT_ANGLE_MAX == 35

abs(x) == IF x < 0 THEN -x ELSE x

isFlippedOf(avail, orient) ==
  IF avail = FALSE
    THEN FALSE
    ELSE abs(orient.pitch) > TILT_ANGLE_MAX \/ abs(orient.roll) > TILT_ANGLE_MAX

isFlipped == isFlippedOf(available, currentOrientation)

\* The rounded angles a sampling tick publishes here: level, at the tilt
\* threshold, and beyond it.
Pitches == {0}
Rolls == {-(TILT_ANGLE_MAX + 1), TILT_ANGLE_MAX}
Headings == {0}

DefaultOrientation == [pitch |-> 0, roll |-> 0, heading |-> 0]

\* The end of getReadings, as the controller sees it: when the sensor is
\* available a sampling tick publishes the angles it computed, otherwise
\* nothing changes.
publishOrientation(p, r, h) ==
  /\ ~panicked
  /\ IF available
       THEN currentOrientation' = [pitch |-> p, roll |-> r, heading |-> h]
       ELSE UNCHANGED currentOrientation
  /\ UNCHANGED <<controllerVars, tickUnit, panicked, available, actuatorVars,
                 httpResponse>>

-----------------------------------------------------------------------------
(* The state units' policy and tick, and setUserChangableState.  Their     *)
(* code is not among the sources; they follow the specification (4.3, 4.4).*)

\* The names the requests of this model carry: names of constructed kinds
\* (the recovery target, two autonomous modes, a safety state), the two kinds
\* without a unit, and one that names no kind.
StateNames ==
  {"DOCKED", "LAUNCHING", "MOWING", "FLIPPED", "MANUAL", "TEST", "BOGUS"}

NoKind == "NoKind"

\* Parsing of a state name into a MowerStateKind; NoKind for an unknown name.
parseStateName(name) ==
  CASE name = "DOCKED" -> "Docked"
    [] name = "LAUNCHING" -> "Launching"
    [] name = "MOWING" -> "Mowing"
    [] name = "DOCKING" -> "Docking"
    [] name = "CHARGING" -> "Charging"
    [] name = "STUCK" -> "Stuck"
    [] name = "FLIPPED" -> "Flipped"
    [] name = "PAUSED" -> "Paused"
    [] name = "DEMO" -> "Demo"
    [] name = "MANUAL" -> "Manual"
    [] name = "TEST" -> "Test"
    [] OTHER -> NoKind

\* acceptsUserCommand of the unit of kind k: a request for the kind already
\* active is accepted; Flipped and Stuck are left only by the recovery
\* command to Docked; every other state accepts any target.
acceptsUserCommand(k, target) ==
  \/ target = k
  \/ k \notin {"Flipped", "Stuck"}
  \/ target = "Docked"

\* The transitions a unit's own tick logic may request (the representative
\* policy table), besides the flip preemption.
tickTargets(k) ==
  CASE k = "Docked" -> {"Launching"}
    [] k = "Launching" -> {"Mowing", "Stuck"}
    [] k = "Mowing" -> {"Docking", "Stuck"}
    [] k = "Docking" -> {"Charging", "Stuck"}
    [] k = "Charging" -> {"Docked", "Mowing"}
    [] k = "Manual" -> {"Stuck"}
    [] OTHER -> {}

\* What setUserChangableState(name) comes to in the current state:
\* "unknown" (no such kind), "panic" (the policy is asked of a null unit),
\* "rejected" or "accepted".
userChangeOutcome(name) ==
  IF parseStateName(name) = NoKind THEN "unknown"
  ELSE IF currentStateInstance = NullPtr THEN "panic"
  ELSE IF acceptsUserCommand(currentStateInstance.unit, parseStateName(name))
    THEN "accepted"
    ELSE "rejected"

\* setUserChangableState(name); ret is its return value.
setUserChangableState(name, ret) ==
  /\ userChangeOutcome(name) # "panic"
  /\ ret = (userChangeOutcome(name) = "accepted")
  /\ IF ret
       THEN setState(parseStateName(name))
       ELSE UNCHANGED controllerVars

\* A dereference of the null unit pointer: address 0 is not mapped on the
\* ESP32, the load traps and the firmware stops.
nullDereference ==
  /\ panicked' = TRUE
  /\ UNCHANGED <<controllerVars, tickUnit, sensorVars, actuatorVars,
                 httpResponse>>

\* No tick is in flight.
Idle == [unit |-> "idle"]

\* The scheduler starts a tick of the active unit.
TickBegin ==
  /\ ~panicked
  /\ tickUnit = Idle
  /\ IF getStateInstance = NullPtr
       THEN nullDereference
       ELSE /\ tickUnit' = getStateInstance
            /\ UNCHANGED <<controllerVars, panicked, sensorVars, actuatorVars,
                           httpResponse>>

\* The tick of the unit finishes: a flipped chassis preempts the unit's own
\* logic, which otherwise may request one of its transitions, or none.
TickEnd ==
  /\ ~panicked
  /\ tickUnit # Idle
  /\ tickUnit' = Idle
  /\ \/ /\ isFlipped /\ tickUnit.unit # "Flipped"
        /\ setState("Flipped")
     \/ /\ ~(isFlipped /\ tickUnit.unit # "Flipped")
        /\ \E t \in tickTargets(tickUnit.unit) : setState(t)
     \/ /\ ~(isFlipped /\ tickUnit.unit # "Flipped")
        /\ UNCHANGED controllerVars
  /\ UNCHANGED <<panicked, sensorVars, actuatorVars, httpResponse>>

-----------------------------------------------------------------------------
(* Api: the MQTT command callback and the state-changing REST endpoints    *)

\* A parsed request body: whether parsing succeeded, the keys it holds and
\* the values of those the handlers read.
StateBody(n) == [success |-> TRUE, keys |-> {"state"}, state |-> n]

StateBodies ==
  {[success |-> FALSE, keys |-> {}, state |-> ""],
   [success |-> TRUE, keys |-> {}, state |-> ""]}
  \cup {StateBody(n) : n \in StateNames}

DriveKeys == {"speed", "turnrate", "smooth"}

DriveBodies ==
  {[success |-> FALSE, keys |-> {}, speed |-> 0, turnrate |-> 0, smooth |-> FALSE]}
  \cup {[success |-> TRUE, keys |-> DriveKeys \ missing, speed |-> 50,
         turnrate |-> 0, smooth |-> FALSE] :
          missing \in {{}, {"speed"}, {"turnrate"}, {"smooth"}}}

\* request->send(code, "text/plain", text), request->send(code) and
\* request->requestAuthentication().
Response(code, text) == [code |-> code, text |-> text]
NoResponse == Response(0, <<>>)
Unauthorized == Response(401, <<>>)

\* The requests of this model: every body with valid credentials, and one
\* well-formed body without (an unauthenticated request's body is not read).
StateRequests ==
  {<<TRUE, body>> : body \in StateBodies}
  \cup {<<FALSE, StateBody("MOWING")>>}

DriveRequests ==
  {<<TRUE, body>> : body \in DriveBodies}
  \cup {<<FALSE, [success |-> TRUE, keys |-> DriveKeys, speed |-> 50,
                  turnrate |-> 0, smooth |-> FALSE]>>}

\* Api::onMqttMessage
onMqttMessage(payload) ==
  /\ ~panicked
  /\ IF payload.success /\ "state" \in payload.keys
       THEN IF userChangeOutcome(payload.state) = "panic"
              THEN nullDereference
              ELSE /\ \E ret \in BOOLEAN :
                        setUserChangableState(payload.state, ret)
                   /\ UNCHANGED <<tickUnit, panicked, sensorVars, actuatorVars,
                                  httpResponse>>
       ELSE UNCHANGED vars

\* A faulty variant of PUT /api/v1/state: the handler switches the state
\* itself with setState, as the manual endpoints do, without asking the
\* current state.
putStateDirect(auth, body) ==
  /\ ~panicked
  /\ IF ~auth
       THEN /\ httpResponse' = Unauthorized
            /\ UNCHANGED controllerVars
       ELSE IF body.success /\ "state" \in body.keys
         THEN IF parseStateName(body.state) = NoKind
                THEN /\ httpResponse' =
                          Response(422, <<"unknown state: ", body.state>>)
                     /\ UNCHANGED controllerVars
                ELSE /\ setState(parseStateName(body.state))
                     /\ httpResponse' = Response(200, <<>>)
         ELSE /\ httpResponse' = Response(400, <<"Bad Request">>)
              /\ UNCHANGED controllerVars
  /\ UNCHANGED <<tickUnit, panicked, sensorVars, actuatorVars>>

\* A faulty variant of PUT /api/v1/state: the handler drops the result of
\* setUserChangableState and answers 200 whatever it was.
putStateIgnoresResult(auth, body) ==
  /\ ~panicked
  /\ IF ~auth
       THEN /\ httpResponse' = Unauthorized
            /\ UNCHANGED <<controllerVars, panicked>>
       ELSE IF body.success /\ "state" \in body.keys
         THEN IF userChangeOutcome(body.state) = "panic"
                THEN panicked' = TRUE /\ UNCHANGED <<controllerVars, httpResponse>>
                ELSE /\ \E ret \in BOOLEAN :
                          setUserChangableState(body.state, ret)
                     /\ httpResponse' = Response(200, <<>>)
                     /\ UNCHANGED panicked
         ELSE /\ httpResponse' = Response(400, <<"Bad Request">>)
              /\ UNCHANGED <<controllerVars, panicked>>
  /\ UNCHANGED <<tickUnit, sensorVars, actuatorVars>>

\* A faulty variant of PUT /api/v1/state: a false result of
\* setUserChangableState is answered like a malformed body, with 400.
putStateBadRequestOnFailure(auth, body) ==
  /\ ~panicked
  /\ IF ~auth
       THEN /\ httpResponse' = Unauthorized
            /\ UNCHANGED <<controllerVars, panicked>>
       ELSE IF body.success /\ "state" \in body.keys
         THEN IF userChangeOutcome(body.state) = "panic"
                THEN panicked' = TRUE /\ UNCHANGED <<controllerVars, httpResponse>>
                ELSE /\ \E ret \in BOOLEAN :
                          /\ setUserChangableState(body.state, ret)
                          /\ httpResponse' =
                               IF ret
                                 THEN Response(200, <<>>)
                                 ELSE Response(400, <<"Bad Request">>)
                     /\ UNCHANGED panicked
         ELSE /\ httpResponse' = Response(400, <<"Bad Request">>)
              /\ UNCHANGED <<controllerVars, panicked>>
  /\ UNCHANGED <<tickUnit, sensorVars, actuatorVars>>

\* PUT /api/v1/state
putState(auth, body) ==
  /\ ~panicked
  /\ IF ~auth
       THEN /\ httpResponse' = Unauthorized
            /\ UNCHANGED <<controllerVars, tickUnit, panicked, sensorVars,
                           actuatorVars>>
       ELSE IF body.success /\ "state" \in body.keys
         THEN IF userChangeOutcome(body.state) = "panic"
                THEN nullDereference
                ELSE /\ \E ret \in BOOLEAN :
                          /\ setUserChangableState(body.state, ret)
                          /\ httpResponse' =
                               IF ret
                                 THEN Response(200, <<>>)
                                 ELSE Response(422, <<"unknown state: ", body.state>>)
                     /\ UNCHANGED <<tickUnit, panicked, sensorVars, actuatorVars>>
         ELSE /\ httpResponse' = Response(400, <<"Bad Request">>)
              /\ UNCHANGED <<controllerVars, tickUnit, panicked, sensorVars,
                             actuatorVars>>

\* The body callback of PUT /api/v1/manual/forward and .../backward: the
\* response it sends and the wheel command it gives (dir), if any.
driveBody(auth, body, dir) ==
  IF ~auth
    THEN httpResponse' = Unauthorized /\ UNCHANGED wheel
    ELSE IF ~body.success
      THEN httpResponse' = Response(400, <<"Bad Request">>) /\ UNCHANGED wheel
    ELSE IF "speed" \notin body.keys
      THEN /\ httpResponse' = Response(400, <<"Bad Request - missing ", "speed">>)
           /\ UNCHANGED wheel
    ELSE IF "turnrate" \notin body.keys
      THEN /\ httpResponse' = Response(400, <<"Bad Request - missing ", "turnrate">>)
           /\ UNCHANGED wheel
    ELSE IF "smooth" \notin body.keys
      THEN /\ httpResponse' = Response(400, <<"Bad Request - missing ", "smooth">>)
           /\ UNCHANGED wheel
    ELSE /\ wheel' = [cmd |-> dir, turnrate |-> body.turnrate,
                      speed |-> body.speed, smooth |-> body.smooth]
         /\ httpResponse' = Response(200, <<>>)

\* PUT /api/v1/manual/forward: the body callback, and the request callback,
\* which runs for every request to the URL.
manualForward(auth, body) ==
  /\ ~panicked
  /\ driveBody(auth, body, "forward")
  /\ setState("Manual")
  /\ UNCHANGED <<tickUnit, panicked, sensorVars, cutter>>

\* PUT /api/v1/manual/backward
manualBackward(auth, body) ==
  /\ ~panicked
  /\ driveBody(auth, body, "backward")
  /\ setState("Manual")
  /\ UNCHANGED <<tickUnit, panicked, sensorVars, cutter>>

\* The request callback of stop, cutter_on and cutter_off: after the
\* authentication check, setState(MANUAL) and one actuator command.
manualCommand(auth, wheelCmd, cutterCmd) ==
  /\ ~panicked
  /\ IF ~auth
       THEN /\ httpResponse' = Unauthorized
            /\ UNCHANGED <<controllerVars, actuatorVars>>
       ELSE /\ setState("Manual")
            /\ wheel' = wheelCmd
            /\ cutter' = cutterCmd
            /\ httpResponse' = Response(200, <<>>)
  /\ UNCHANGED <<tickUnit, panicked, sensorVars>>

\* PUT /api/v1/manual/stop
manualStop(auth) ==
  manualCommand(auth, [cmd |-> "stop", immediate |-> TRUE], cutter)

\* PUT /api/v1/manual/cutter_on
manualCutterOn(auth) ==
  manualCommand(auth, wheel, [cmd |-> "start"])

\* PUT /api/v1/manual/cutter_off
manualCutterOff(auth) ==
  manualCommand(auth, wheel, [cmd |-> "stop", immediate |-> TRUE])

-----------------------------------------------------------------------------
(* IO_Accelerometer: start() and the sampling of getReadings               *)

\* The length of the median windows (definitions.h, not among the sources),
\* scaled down.
GYRO_MEDIAN_SAMPLES == 3

Axes == {"ax", "ay", "az", "mx", "my"}

\* What readAccel can leave in the registers: level, pitched to the tilt
\* threshold, pitched beyond it.
AccelReadings ==
  {[ax |-> 0, ay |-> 0, az |-> 10],
   [ax |-> -7, ay |-> 0, az |-> 10],
   [ax |-> -8, ay |-> 0, az |-> 10]}

\* What readMag can leave in the registers: a field a little east of north,
\* and one on the -my == 0 boundary.
MagReadings ==
  {[mx |-> -83, my |-> -1000],
   [mx |-> 1, my |-> 0]}

\* The registers after an optional readAccel and an optional readMag; each
\* argument is <<data available, the data>>.
readRegisters(regs, accel, mag) ==
  [ax |-> IF accel[1] THEN accel[2].ax ELSE regs.ax,
   ay |-> IF accel[1] THEN accel[2].ay ELSE regs.ay,
   az |-> IF accel[1] THEN accel[2].az ELSE regs.az,
   mx |-> IF mag[1] THEN mag[2].mx ELSE regs.mx,
   my |-> IF mag[1] THEN mag[2].my ELSE regs.my]

\* accelAvailable() with what readAccel then reads; likewise the magnetometer.
AccelData ==
  {<<TRUE, r>> : r \in AccelReadings}
  \cup {<<FALSE, [ax |-> 0, ay |-> 0, az |-> 0]>>}

MagData ==
  {<<TRUE, r>> : r \in MagReadings} \cup {<<FALSE, [mx |-> 0, my |-> 0]>>}

\* Integer division of C: the quotient is truncated toward zero.
truncDiv(a, b) == IF a >= 0 THEN a \div b ELSE -((-a) \div b)

\* entries[k] after sorting entries, k counted from 0.
sortedAt(entries, k) ==
  CHOOSE e \in {entries[i] : i \in DOMAIN entries} :
    /\ Cardinality({i \in DOMAIN entries : entries[i] < e}) <= k
    /\ Cardinality({i \in DOMAIN entries : entries[i] <= e}) > k

\* Utils::calculateMedian (utils.h, not among the sources; after the
\* specification, 4.2): the middle of the sorted entries, the mean of the
\* two middle ones when their number is even.
calculateMedian(entries) ==
  IF Len(entries) % 2 = 1
    THEN sortedAt(entries, Len(entries) \div 2)
    ELSE truncDiv(sortedAt(entries, Len(entries) \div 2 - 1)
                    + sortedAt(entries, Len(entries) \div 2), 2)

\* sqrt of the squares this model takes it of.
sqrt(n) == CHOOSE r \in 0 .. n : r * r = n

\* atan2(y, x) * 180.0f / PI in hundredths of a degree, for the medians the
\* readings above give.
atan2(y, x) ==
  CASE y = 0 /\ x >= 0 -> 0
    [] y > 0 /\ x = 0 -> 9000
    [] y = 7 /\ x = 10 -> 3499
    [] y = 8 /\ x = 10 -> 3866
    [] y = 3 /\ x = 10 -> 1670
    [] y = 4 /\ x = 10 -> 2180
    [] y = 83 /\ x = 1000 -> 474
    [] y = -1 /\ x = 1000 -> -6
    [] y = 41 /\ x = 1000 -> 235
    [] y = 83 /\ x = 500 -> 943
    [] y = -1 /\ x = 500 -> -11
    [] y = 41 /\ x = 500 -> 469

\* PI * 180.0f / PI, in hundredths of a degree.
PI == 18000

\* The magnetic declination (definitions.h, not among the sources), in
\* hundredths of a degree.
DECLINATION == 500

\* roundf of hundredths of a degree to whole degrees: to the nearest, halves
\* away from zero.
roundf(v) == IF v >= 0 THEN (v + 50) \div 100 ELSE -((50 - v) \div 100)

\* The angles getReadings derives from the five medians.
rollOf(newAy, newAz) == roundf(atan2(newAy, newAz))

pitchOf(newAx, newAy, newAz) ==
  roundf(atan2(-newAx, sqrt(newAy * newAy + newAz * newAz)))

yawOf(newMx, newMy) ==
  IF -newMy = 0
    THEN (IF -newMx < 0 THEN PI ELSE 0)
    ELSE atan2(-newMx, -newMy)

headingOf(newMx, newMy) ==
  LET yaw == yawOf(newMx, newMy) - DECLINATION
  IN  roundf(IF yaw < 0 THEN yaw + 36000 ELSE yaw)

\* The orientation getReadings publishes for the medians m.
orientationOf(m) ==
  [pitch |-> pitchOf(m.ax, m.ay, m.az),
   roll |-> rollOf(m.ay, m.az),
   heading |-> headingOf(m.mx, m.my)]

\* The per-axis medians of the windows.
medians(windows) == [a \in Axes |-> calculateMedian(windows[a])]

\* The windows after the registers regs are written at index.
writeSamples(windows, index, regs) ==
  [a \in Axes |-> [windows[a] EXCEPT ![index + 1] = regs[a]]]

\* The count of consecutive samples taken with the same registers, regs
\* being those of the sample taken now.
streakAfter(regs) ==
  IF streak > 0 /\ regs = imu
    THEN (IF streak < GYRO_MEDIAN_SAMPLES THEN streak + 1 ELSE streak)
    ELSE 1

\* A faulty variant of getReadings: the index is not advanced, every sample
\* lands in the same slot of the windows.
getReadingsFixedIndex(accel, mag) ==
  IF available
    THEN LET regs == readRegisters(imu, accel, mag)
             windows == writeSamples(samples, medianIndex, regs)
         IN  /\ imu' = regs
             /\ samples' = windows
             /\ medianIndex' = medianIndex
             /\ currentOrientation' = orientationOf(medians(windows))
             /\ streak' = streakAfter(regs)
    ELSE UNCHANGED <<imu, samples, medianIndex, currentOrientation, streak>>

\* A faulty variant of getReadings: the index is advanced by two, a slot of
\* the windows is skipped on every sample.
getReadingsSkipsSlot(accel, mag) ==
  IF available
    THEN LET regs == readRegisters(imu, accel, mag)
             windows == writeSamples(samples, medianIndex, regs)
         IN  /\ imu' = regs
             /\ samples' = windows
             /\ medianIndex' = (medianIndex + 2) % GYRO_MEDIAN_SAMPLES
             /\ currentOrientation' = orientationOf(medians(windows))
             /\ streak' = streakAfter(regs)
    ELSE UNCHANGED <<imu, samples, medianIndex, currentOrientation, streak>>

\* IO_Accelerometer::getReadings
getReadings(accel, mag) ==
  IF available
    THEN LET regs == readRegisters(imu, accel, mag)
             windows == writeSamples(samples, medianIndex, regs)
         IN  /\ imu' = regs
             /\ samples' = windows
             /\ medianIndex' = (medianIndex + 1) % GYRO_MEDIAN_SAMPLES
             /\ currentOrientation' = orientationOf(medians(windows))
             /\ streak' = streakAfter(regs)
    ELSE UNCHANGED <<imu, samples, medianIndex, currentOrientation, streak>>

\* A faulty variant of the first step of start(): the failure of begin() is
\* ignored.
startBeginIgnoresFailure(ok) ==
  /\ startPc = "begin"
  /\ available' = TRUE
  /\ startPc' = IF ok THEN "calibrate" ELSE "failed"
  /\ UNCHANGED <<primed, tickerAttached, imu, samples, medianIndex, streak,
                 currentOrientation>>

\* start(), its first step: imu.begin() succeeds (ok) and available is set,
\* or it fails, the error is logged and start() returns.
startBegin(ok) ==
  /\ startPc = "begin"
  /\ IF ok
       THEN available' = TRUE /\ startPc' = "calibrate"
       ELSE UNCHANGED available /\ startPc' = "failed"
  /\ UNCHANGED <<primed, tickerAttached, imu, samples, medianIndex, streak,
                 currentOrientation>>

\* start(): imu.calibrate(true), which samples the sensor into the registers.
startCalibrate(accel) ==
  /\ startPc = "calibrate"
  /\ startPc' = "prime"
  /\ imu' = readRegisters(imu, accel, <<FALSE, imu>>)
  /\ UNCHANGED <<available, primed, tickerAttached, samples, medianIndex,
                 streak, currentOrientation>>

\* start(): one round of the loop that sets the initial state.
startPrime(accel, mag) ==
  /\ startPc = "prime"
  /\ primed < GYRO_MEDIAN_SAMPLES
  /\ getReadings(accel, mag)
  /\ primed' = primed + 1
  /\ UNCHANGED <<available, startPc, tickerAttached>>

\* start(): after the loop, the ticker is attached and start() returns.
startAttach ==
  /\ startPc = "prime"
  /\ primed >= GYRO_MEDIAN_SAMPLES
  /\ tickerAttached' = TRUE
  /\ startPc' = "active"
  /\ UNCHANGED <<available, primed, imu, samples, medianIndex, streak,
                 currentOrientation>>

\* The callback of sensorReadingTicker, every 50 ms once attached.
sampleTick(accel, mag) ==
  /\ tickerAttached
  /\ getReadings(accel, mag)
  /\ UNCHANGED <<available, startPc, primed, tickerAttached>>

\* A call of getReadings after start() has returned.
getReadingsCall(accel, mag) ==
  /\ startPc \in {"active", "failed"}
  /\ getReadings(accel, mag)
  /\ UNCHANGED <<available, startPc, primed, tickerAttached>>

\* The state of the estimator as the specification (4.2) names it.
estimatorState ==
  CASE startPc = "begin" -> "Uninitialized"
    [] startPc \in {"calibrate", "prime"} -> "Calibrating"
    [] startPc = "active" -> "Active"
    [] startPc = "failed" -> "Unavailable"

\* The registers and the windows hold readings of the sensor, whichever.
Registers ==
  {[ax |-> a.ax, ay |-> a.ay, az |-> a.az, mx |-> m.mx, my |-> m.my] :
     a \in AccelReadings, m \in MagReadings}

Windows ==
  {[a \in Axes |-> [i \in 1 .. GYRO_MEDIAN_SAMPLES |-> f[i][a]]] :
     f \in [1 .. GYRO_MEDIAN_SAMPLES -> Registers]}

\* The estimator constructed, start() not yet called.
ImuInit ==
  /\ startPc = "begin"
  /\ primed = 0
  /\ tickerAttached = FALSE
  /\ imu \in Registers
  /\ samples \in Windows
  /\ medianIndex = 0
  /\ streak = 0

\* The estimator after start(), its windows holding one reading throughout.
ImuStarted ==
  /\ startPc = IF available THEN "active" ELSE "failed"
  /\ primed = IF available THEN GYRO_MEDIAN_SAMPLES ELSE 0
  /\ tickerAttached = available
  /\ imu = [ax |-> 0, ay |-> 0, az |-> 10, mx |-> 1, my |-> 0]
  /\ samples = [a \in Axes |-> [i \in 1 .. GYRO_MEDIAN_SAMPLES |-> imu[a]]]
  /\ medianIndex = 0
  /\ streak = IF available THEN GYRO_MEDIAN_SAMPLES ELSE 0

-----------------------------------------------------------------------------
(* IO_Accelerometer::getReadings store by store, beside a reader           *)

\* The accelerometer constructed: no sample has been computed or stored and
\* no reader has copied the orientation; the copies hold the orientation
\* of the constructor.  The specifications that do not follow the stores
\* keep them so.
RaceInit ==
  /\ writePc = "idle"
  /\ computed = DefaultOrientation
  /\ published = DefaultOrientation
  /\ orientCopy = DefaultOrientation
  /\ orientSamples = {DefaultOrientation}

\* After start(): the sampling task is between two calls of getReadings,
\* the latest sample is stored whole, and a reader has copied it.
RaceStarted ==
  /\ writePc = "idle"
  /\ computed = currentOrientation
  /\ published = currentOrientation
  /\ orientCopy = currentOrientation
  /\ orientSamples = {currentOrientation}

\* getReadings up to its last three statements: the registers are read, the
\* windows written, the index advanced and the angles computed into the
\* locals.
getReadingsCompute(accel, mag) ==
  /\ tickerAttached
  /\ available
  /\ writePc = "idle"
  /\ LET regs == readRegisters(imu, accel, mag)
         windows == writeSamples(samples, medianIndex, regs)
     IN  /\ imu' = regs
         /\ samples' = windows
         /\ medianIndex' = (medianIndex + 1) % GYRO_MEDIAN_SAMPLES
         /\ computed' = orientationOf(medians(windows))
         /\ streak' = streakAfter(regs)
  /\ writePc' = "roll"
  /\ UNCHANGED <<available, currentOrientation, startPc, primed,
                 tickerAttached, published, orientCopy, orientSamples>>

\* currentOrientation.roll = roundf(roll)
storeRoll ==
  /\ writePc = "roll"
  /\ currentOrientation' = [currentOrientation EXCEPT !.roll = computed.roll]
  /\ writePc' = "pitch"
  /\ UNCHANGED <<available, imuVars, computed, published, orientCopy,
                 orientSamples>>

\* currentOrientation.pitch = roundf(pitch)
storePitch ==
  /\ writePc = "pitch"
  /\ currentOrientation' = [currentOrientation EXCEPT !.pitch = computed.pitch]
  /\ writePc' = "heading"
  /\ UNCHANGED <<available, imuVars, computed, published, orientCopy,
                 orientSamples>>

\* currentOrientation.heading = roundf(yaw), and getReadings returns.
storeHeading ==
  /\ writePc = "heading"
  /\ currentOrientation' =
       [currentOrientation EXCEPT !.heading = computed.heading]
  /\ writePc' = "idle"
  /\ published' = computed
  /\ UNCHANGED <<available, imuVars, computed, orientCopy, orientSamples>>

\* A reader in another task copies the orientation: auto orient =
\* resources.accelerometer.getOrientation().  Nothing orders the copy with
\* the stores of getReadings.
readOrientation ==
  /\ orientCopy' = currentOrientation
  /\ orientSamples' = {published, computed}
  /\ UNCHANGED <<sensorVars, imuVars, writePc, computed, published>>

-----------------------------------------------------------------------------
(* Timer: the elapsed-time tracker on the millisecond counter              *)

\* The width of unsigned long, scaled down, and the counter's modulus.
WordBits == 3
Modulus == 2 ^ WordBits

\* The real time this model runs to: the counter wraps twice.
MaxTime == 2 * Modulus

\* millis(): the counter wraps at the width of unsigned long.
millis == realTime % Modulus

\* (unsigned long)(a - b)
unsignedSub(a, b) == (a - b) % Modulus

\* The arguments hasAmountTimePassed is called with: the least and the
\* greatest unsigned long, and amounts between.
Thresholds == {0, 1, Modulus \div 2, Modulus - 1}

NoCall ==
  [op |-> "none", arg |-> 0, ret |-> 0, passed |-> FALSE, at |-> 0, since |-> 0]

\* The latest call: its result (ret of the two that return a time, passed
\* of hasAmountTimePassed), and the real time of the call and of the mark
\* it found.
Call(op, arg, ret, passed) ==
  [op |-> op, arg |-> arg, ret |-> ret, passed |-> passed, at |-> realTime,
   since |-> markTime]

\* Timer::Timer
TimerInit ==
  /\ previousMillis = 0
  /\ realTime = 0
  /\ markTime = 0
  /\ timerCall = NoCall

\* d milliseconds pass.
MaxAdvance == 3

advance(d) ==
  /\ realTime + d <= MaxTime
  /\ realTime' = realTime + d
  /\ UNCHANGED <<previousMillis, markTime, timerCall>>

\* A faulty variant of millisSinceLast: the difference is taken without
\* wrapping, and is 0 when the counter is behind the mark.
millisSinceLastNoWrap ==
  /\ timerCall' = Call("millisSinceLast", 0,
                       IF millis >= previousMillis
                         THEN millis - previousMillis ELSE 0,
                       FALSE)
  /\ previousMillis' = millis
  /\ markTime' = realTime
  /\ UNCHANGED realTime

\* Timer::millisSinceLast
millisSinceLast ==
  /\ timerCall' = Call("millisSinceLast", 0, unsignedSub(millis, previousMillis), FALSE)
  /\ previousMillis' = millis
  /\ markTime' = realTime
  /\ UNCHANGED realTime

\* A faulty variant of hasAmountTimePassed: the counter is compared with
\* the mark plus the amount, which fails when that sum or the counter wraps.
hasAmountTimePassedBySum(time) ==
  /\ timerCall' = Call("hasAmountTimePassed", time, 0,
                       millis >= (previousMillis + time) % Modulus)
  /\ UNCHANGED <<previousMillis, realTime, markTime>>

\* Timer::hasAmountTimePassed
hasAmountTimePassed(time) ==
  /\ timerCall' = Call("hasAmountTimePassed", time, 0,
                       unsignedSub(millis, previousMillis) >= time)
  /\ UNCHANGED <<previousMillis, realTime, markTime>>

\* Timer::getMillis
getMillis ==
  /\ previousMillis' = millis
  /\ markTime' = realTime
  /\ timerCall' = Call("getMillis", 0, previousMillis', FALSE)
  /\ UNCHANGED realTime

-----------------------------------------------------------------------------
(* Api::collectAndPushNewStatus                                            *)

\* The width of uint32_t, scaled down, and the modulus of the uptime.
UptimeBits == 5
UptimeModulus == 2 ^ UptimeBits

\* The seconds since boot the clock is followed for: past the 10 seconds
\* of the MQTT limit, and, where the subsystems and the state change too,
\* from one second to the next.
MaxUptime == 12
PushSeconds == 1

\* a - b in uint32_t.
uptimeSub(a, b) == (a - b + UptimeModulus) % UptimeModulus

\* What the battery, the cutter, the wheel controller and WiFi.RSSI() can
\* report: at rest, the signal a little weaker, and mowing.
AtRest ==
  [batteryVoltage |-> 12, batteryLevel |-> 80, isCharging |-> FALSE,
   lastFullyChargeTime |-> 0, lastChargeDuration |-> 0, cutterLoad |-> 0,
   cutterRotating |-> FALSE, leftWheelSpd |-> 0, rightWheelSpd |-> 0,
   wifiSignal |-> -60]

SubsystemReadings ==
  {AtRest,
   [AtRest EXCEPT !.wifiSignal = -61],
   [AtRest EXCEPT !.cutterLoad = 30, !.cutterRotating = TRUE,
                  !.leftWheelSpd = 50, !.rightWheelSpd = 50]}

\* The fields of the status a change of which is pushed.
TrackedFields ==
  {"state", "batteryVoltage", "batteryLevel", "isCharging",
   "lastFullyChargeTime", "lastChargeDuration", "cutterLoad",
   "cutterRotating", "leftWheelSpd", "rightWheelSpd", "wifiSignal",
   "pitch", "roll", "heading"}

\* getStateName() of a unit.
getStateName(u) == u.unit

\* What the getters return now, field by field of the status.
statusReadings ==
  [f \in TrackedFields |->
     CASE f = "state" -> getStateName(getStateInstance)
       [] f = "pitch" -> currentOrientation.pitch
       [] f = "roll" -> currentOrientation.roll
       [] f = "heading" -> currentOrientation.heading
       [] OTHER -> subsystems[f]]

\* The latest two entries of a log.
lastTwo(log) == IF Len(log) > 2 THEN Tail(log) ELSE log

\* Nothing has been sent.
NothingPushed == [ws |-> FALSE, mqtt |-> FALSE]

\* Api constructed, no status collected yet.
PushInit ==
  /\ currentStatus =
       [f \in TrackedFields \cup {"uptime"} |->
          CASE f = "state" -> ""
            [] f \in {"isCharging", "cutterRotating"} -> FALSE
            [] OTHER -> 0]
  /\ lastMQTT_push = 0
  /\ uptime = 0
  /\ subsystems = AtRest
  /\ pushed = NothingPushed
  /\ mqttLog = <<>>

\* Api::collectAndPushNewStatus, the callback of pushNewInfoTicker: every
\* field that differs from the cached status is cached and marks the status
\* changed, the uptime is cached without marking, a changed status is sent
\* on the web socket, and published on MQTT when lastMQTT_push is below
\* uptime - 10 in uint32_t.
collectAndPushNewStatus ==
  /\ ~panicked
  /\ IF getStateInstance = NullPtr
       THEN /\ panicked' = TRUE
            /\ UNCHANGED <<currentStatus, lastMQTT_push, pushed, mqttLog>>
       ELSE LET now == uptime % UptimeModulus
                statusChanged ==
                  \E f \in TrackedFields :
                    currentStatus[f] # statusReadings[f]
                publish ==
                  statusChanged /\ lastMQTT_push < uptimeSub(now, 10)
            IN  /\ currentStatus' =
                     [f \in TrackedFields \cup {"uptime"} |->
                        IF f = "uptime" THEN now ELSE statusReadings[f]]
                /\ pushed' = [ws |-> statusChanged, mqtt |-> publish]
                /\ lastMQTT_push' = IF publish THEN now ELSE lastMQTT_push
                /\ mqttLog' = IF publish
                                THEN lastTwo(mqttLog \o <<now>>)
                                ELSE mqttLog
                /\ UNCHANGED panicked
  /\ UNCHANGED <<controllerVars, tickUnit, sensorVars, actuatorVars,
                 httpResponse, uptime, subsystems>>

\* A second of uptime passes, up to limit.
uptimeAdvance(limit) ==
  /\ uptime < limit
  /\ uptime' = uptime + 1
  /\ UNCHANGED <<vars, currentStatus, lastMQTT_push, subsystems, pushed,
                 mqttLog>>

\* The battery, the cutter, the wheels or WiFi report something else.
subsystemsChange(readings) ==
  /\ subsystems' = readings
  /\ UNCHANGED <<vars, currentStatus, lastMQTT_push, uptime, pushed, mqttLog>>

-----------------------------------------------------------------------------
(* The program                                                             *)

\* No command has been given to an actuator yet.
NoCommand == [cmd |-> "none"]

\* The kinds the controller is constructed with.
InitialStates == ConstructedKinds

\* The controller constructed with initialState; no tick, request or
\* actuator command yet.
ControllerInit ==
  /\ \E initialState \in InitialStates :
       /\ stateLookup = LookupInsert(ConstructedTable, initialState)
       /\ currentStateInstance = setStateTarget(stateLookup, initialState)
       /\ hookCalls = setStateHooks(NullPtr, currentStateInstance)
                        \o setStatePublishes(initialState)
  /\ tickUnit = Idle
  /\ panicked = FALSE
  /\ wheel = NoCommand
  /\ cutter = NoCommand
  /\ httpResponse = NoResponse

\* After set-up: the controller constructed, the accelerometer started
\* (available and primed, or not available).
Init ==
  /\ ControllerInit
  /\ available \in BOOLEAN
  /\ currentOrientation \in
       IF available
         THEN {[pitch |-> p, roll |-> r, heading |-> h] :
                 p \in Pitches, r \in Rolls, h \in Headings}
         ELSE {DefaultOrientation}
  /\ TimerInit
  /\ ImuStarted
  /\ RaceInit
  /\ PushInit

\* The steps of the controller, the tick and the handlers; the sampling is
\* seen through publishOrientation, and no Timer runs.
Next ==
  \/ TickBegin /\ UNCHANGED <<timerVars, imuVars, raceVars, pushVars>>
  \/ TickEnd /\ UNCHANGED <<timerVars, imuVars, raceVars, pushVars>>
  \/ \E p \in Pitches, r \in Rolls, h \in Headings :
       publishOrientation(p, r, h) /\ UNCHANGED <<timerVars, imuVars, raceVars, pushVars>>
  \/ \E payload \in StateBodies :
       onMqttMessage(payload) /\ UNCHANGED <<timerVars, imuVars, raceVars, pushVars>>
  \/ \E req \in StateRequests :
       putState(req[1], req[2]) /\ UNCHANGED <<timerVars, imuVars, raceVars, pushVars>>
  \/ \E req \in DriveRequests :
       manualForward(req[1], req[2]) /\ UNCHANGED <<timerVars, imuVars, raceVars, pushVars>>
  \/ \E req \in DriveRequests :
       manualBackward(req[1], req[2]) /\ UNCHANGED <<timerVars, imuVars, raceVars, pushVars>>
  \/ \E auth \in BOOLEAN :
       manualStop(auth) /\ UNCHANGED <<timerVars, imuVars, raceVars, pushVars>>
  \/ \E auth \in BOOLEAN :
       manualCutterOn(auth) /\ UNCHANGED <<timerVars, imuVars, raceVars, pushVars>>
  \/ \E auth \in BOOLEAN :
       manualCutterOff(auth) /\ UNCHANGED <<timerVars, imuVars, raceVars, pushVars>>

Spec == Init /\ [][Next]_vars

\* The state requests alone: the controller, its ticks, PUT /api/v1/state
\* and the MQTT command, with manual/stop as the one manual endpoint (it
\* activates MANUAL); the sensor keeps the orientation it started with.
StateApiNext ==
  \/ TickBegin /\ UNCHANGED <<timerVars, imuVars, raceVars, pushVars>>
  \/ TickEnd /\ UNCHANGED <<timerVars, imuVars, raceVars, pushVars>>
  \/ \E payload \in StateBodies :
       onMqttMessage(payload) /\ UNCHANGED <<timerVars, imuVars, raceVars, pushVars>>
  \/ \E req \in StateRequests :
       putState(req[1], req[2]) /\ UNCHANGED <<timerVars, imuVars, raceVars, pushVars>>
  \/ \E auth \in BOOLEAN :
       manualStop(auth) /\ UNCHANGED <<timerVars, imuVars, raceVars, pushVars>>

SpecStateApi == Init /\ [][StateApiNext]_vars

\* The Timer alone, on a controller at rest: time passes and the three
\* operations are called in any order.
TimerSpecInit ==
  /\ Init
  /\ currentStateInstance = Unit("Docked")
  /\ available = FALSE

TimerNext ==
  \/ \E d \in 1 .. MaxAdvance : advance(d) /\ UNCHANGED <<vars, imuVars, raceVars, pushVars>>
  \/ millisSinceLast /\ UNCHANGED <<vars, imuVars, raceVars, pushVars>>
  \/ \E time \in Thresholds :
       hasAmountTimePassed(time) /\ UNCHANGED <<vars, imuVars, raceVars, pushVars>>
  \/ getMillis /\ UNCHANGED <<vars, imuVars, raceVars, pushVars>>

SpecTimer == TimerSpecInit /\ [][TimerNext]_timerVars

\* The accelerometer alone, from its construction: start() runs once, step
\* by step, the ticker samples once attached, and the sensor has fresh data
\* or none at each sample.
ImuSpecInit ==
  /\ ControllerInit
  /\ currentStateInstance = Unit("Docked")
  /\ available = FALSE
  /\ currentOrientation = DefaultOrientation
  /\ TimerInit
  /\ ImuInit
  /\ RaceInit
  /\ PushInit

\* What the accelerometer leaves alone.
notImuVars ==
  <<controllerVars, tickUnit, panicked, actuatorVars, httpResponse, timerVars,
    raceVars, pushVars>>

ImuNext ==
  \/ \E ok \in BOOLEAN : startBegin(ok) /\ UNCHANGED notImuVars
  \/ \E accel \in AccelData : startCalibrate(accel) /\ UNCHANGED notImuVars
  \/ \E accel \in AccelData, mag \in MagData :
       startPrime(accel, mag) /\ UNCHANGED notImuVars
  \/ startAttach /\ UNCHANGED notImuVars
  \/ \E accel \in AccelData, mag \in MagData :
       sampleTick(accel, mag) /\ UNCHANGED notImuVars
  \/ \E accel \in AccelData, mag \in MagData :
       getReadingsCall(accel, mag) /\ UNCHANGED notImuVars

SpecImu == ImuSpecInit /\ [][ImuNext]_<<sensorVars, imuVars>>

\* The sampling task and a reader side by side, after a successful start():
\* the stores of getReadings and the copy of the reader in any order.
RaceSpecInit ==
  /\ ControllerInit
  /\ currentStateInstance = Unit("Docked")
  /\ available = TRUE
  /\ TimerInit
  /\ ImuStarted
  /\ currentOrientation = orientationOf(imu)
  /\ RaceStarted
  /\ PushInit

\* What neither the sampling nor the reader touches.
notRaceVars ==
  <<controllerVars, tickUnit, panicked, actuatorVars, httpResponse, timerVars,
    pushVars>>

RaceNext ==
  \/ \E accel \in AccelData, mag \in MagData :
       getReadingsCompute(accel, mag) /\ UNCHANGED notRaceVars
  \/ storeRoll /\ UNCHANGED notRaceVars
  \/ storePitch /\ UNCHANGED notRaceVars
  \/ storeHeading /\ UNCHANGED notRaceVars
  \/ readOrientation /\ UNCHANGED notRaceVars

SpecImuRace == RaceSpecInit /\ [][RaceNext]_<<sensorVars, imuVars, raceVars>>

\* The status push beside what it reports: the ticker calls
\* collectAndPushNewStatus, a second passes, the subsystems and the
\* orientation change, and the state is changed by MQTT commands and by
\* manual/stop (which activates MANUAL).
PushSpecInit ==
  /\ Init
  /\ currentStateInstance = Unit("Docked")
  /\ available = TRUE
  /\ currentOrientation.roll = TILT_ANGLE_MAX

\* What neither the status push nor its surroundings touch.
notPushVars == <<timerVars, imuVars, raceVars>>

\* The MQTT commands sent while the status is watched.
PushCommands == {StateBody("MOWING"), StateBody("DOCKED")}

PushNext ==
  \/ collectAndPushNewStatus /\ UNCHANGED notPushVars
  \/ uptimeAdvance(PushSeconds) /\ UNCHANGED notPushVars
  \/ \E readings \in SubsystemReadings :
       subsystemsChange(readings) /\ UNCHANGED notPushVars
  \/ \E p \in Pitches, r \in Rolls, h \in Headings :
       publishOrientation(p, r, h) /\ UNCHANGED <<notPushVars, pushVars>>
  \/ \E payload \in PushCommands :
       onMqttMessage(payload) /\ UNCHANGED <<notPushVars, pushVars>>
  \/ manualStop(TRUE) /\ UNCHANGED <<notPushVars, pushVars>>

SpecPush == PushSpecInit /\ [][PushNext]_<<vars, pushVars>>

\* The MQTT limit alone, over the seconds: the ticker calls
\* collectAndPushNewStatus, the uptime passes and the WiFi signal changes;
\* the state and the orientation stay.
PushRateNext ==
  \/ collectAndPushNewStatus /\ UNCHANGED notPushVars
  \/ uptimeAdvance(MaxUptime) /\ UNCHANGED notPushVars
  \/ \E readings \in {AtRest, [AtRest EXCEPT !.wifiSignal = -61]} :
       subsystemsChange(readings) /\ UNCHANGED notPushVars

SpecPushRate == PushSpecInit /\ [][PushRateNext]_<<vars, pushVars>>

-----------------------------------------------------------------------------
(* Properties of the controller                                            *)

\* The hook calls the transition protocol asks of a change from unit a to
\* unit b: a's onExit, then b's onEnter.
onExit(u) == [hook |-> "onExit", unit |-> u]
onEnter(u) == [hook |-> "onEnter", unit |-> u]

\* A step of some network request: the MQTT callback or a REST endpoint.
NetworkRequest ==
  \/ \E payload \in StateBodies : onMqttMessage(payload)
  \/ \E req \in StateRequests : putState(req[1], req[2])
  \/ \E req \in DriveRequests : manualForward(req[1], req[2])
  \/ \E req \in DriveRequests : manualBackward(req[1], req[2])
  \/ \E auth \in BOOLEAN : manualStop(auth)
  \/ \E auth \in BOOLEAN : manualCutterOn(auth)
  \/ \E auth \in BOOLEAN : manualCutterOff(auth)

\* C1: in every reachable state the current state has a registered unit:
\* getStateInstance() is the non-null unit the table holds for its kind.
C1_CurrentStateRegistered ==
  /\ getStateInstance \in Units
  /\ getStateInstance.unit \in DOMAIN stateLookup
  /\ stateLookup[getStateInstance.unit] = getStateInstance

\* C2: every setState that changes the active unit from A to B has invoked
\* A's onExit and then B's onEnter, in that order and nothing else.
C2_ExitBeforeEnter ==
  [][(currentStateInstance' # currentStateInstance
        /\ currentStateInstance \in Units /\ currentStateInstance' \in Units)
      => hookCalls' = <<onExit(currentStateInstance), onEnter(currentStateInstance')>>]_vars

\* C3: while a tick is in flight, the active-unit reference is the one the
\* tick started with.
C3_NoSwapMidTick ==
  tickUnit # Idle => currentStateInstance = tickUnit

\* C4: the active unit's onEnter has run exactly once since the latest
\* transition into it (the constructor's initial transition included).
C4_EnterRanOnce ==
  currentStateInstance \in Units =>
    Cardinality({i \in DOMAIN hookCalls : hookCalls[i] = onEnter(currentStateInstance)}) = 1

\* C5: a tick that runs while isFlipped() is true and the ticking state is
\* not Flipped leaves the controller in Flipped; this holds too for the tick
\* of a state whose kind has no unit (the scheduler's dispatch on it).
C5_FlipPreemption ==
  [][(isFlipped
        /\ \/ tickUnit # Idle /\ tickUnit' = Idle /\ tickUnit # Unit("Flipped")
           \/ TickBegin /\ getStateInstance = NullPtr)
      => currentStateInstance' = Unit("Flipped")]_vars

\* C6: every change of the current state made by a network request is one
\* that setUserChangableState makes after the current state's
\* acceptsUserCommand check accepted the target.
C6_SoleEntryPoint ==
  [][(NetworkRequest /\ currentStateInstance' # currentStateInstance)
      => \E n \in StateNames : setUserChangableState(n, TRUE)]_vars

C9_Totality ==
  \A k \in Kinds : k \in DOMAIN stateLookup /\ stateLookup[k] = Unit(k)

\* C10: a setState with a kind that has no registered unit leaves the
\* current state and the table unchanged.
C10_UnknownStateRejected ==
  [][\A k \in Kinds :
       (setState(k) /\ (k \notin DOMAIN stateLookup \/ stateLookup[k] = NullPtr))
       => UNCHANGED <<currentStateInstance, stateLookup>>]_vars

\* The kinds whose table entry is the pointer currently active.
activeKinds ==
  {k \in DOMAIN stateLookup : stateLookup[k] = currentStateInstance}

\* C11: a request for the kind that is already active succeeds (the firmware
\* keeps running and PUT /api/v1/state answers 200) and leaves the current
\* state, the table, the hooks run and the actuators as they were.
C11_IdempotentSelfTransition ==
  [][\A n \in StateNames :
       (activeKinds = {parseStateName(n)} /\ putState(TRUE, StateBody(n)))
       => /\ UNCHANGED <<controllerVars, actuatorVars>>
          /\ ~panicked'
          /\ httpResponse' = Response(200, <<>>)]_vars

\* C12: every step that gives the wheels or the cutter a command is a step
\* of the tick of the unit that is the current state; no network request
\* handler commands an actuator.
C12_ActuatorsOnlyByActiveState ==
  [][actuatorVars' # actuatorVars
      => /\ TickEnd
         /\ tickUnit = currentStateInstance
         /\ ~NetworkRequest]_vars

-----------------------------------------------------------------------------
(* Properties of the Timer                                                 *)

\* C13: millisSinceLast returns (now - mark) mod 2^w and sets the mark to
\* now; whenever the true time since the mark is below 2^w, the counter
\* having wrapped or not, the result is that true time.
C13_MillisSinceLastWraps ==
  [][millisSinceLast
      => /\ timerCall'.ret = (realTime - markTime) % Modulus
         /\ previousMillis' = millis
         /\ markTime' = realTime
         /\ realTime - markTime < Modulus
              => timerCall'.ret = realTime - markTime]_timerVars

\* C13, witness: millisSinceLast has returned the true elapsed time of a
\* span in which the counter wrapped (the counter read less than the mark).
C13_Witness ==
  /\ timerCall.op = "millisSinceLast"
  /\ timerCall.at % Modulus < timerCall.since % Modulus
  /\ timerCall.at - timerCall.since < Modulus
  /\ timerCall.ret = timerCall.at - timerCall.since
  /\ previousMillis = timerCall.at % Modulus

\* C14: hasAmountTimePassed(time) is true iff the time since the mark,
\* taken mod 2^w, is at least time (so iff the true time is, while that is
\* below 2^w), and it leaves the mark as it was.
C14_HasAmountTimePassed ==
  [][\A time \in Thresholds :
       hasAmountTimePassed(time)
       => /\ timerCall'.passed = ((realTime - markTime) % Modulus >= time)
          /\ realTime - markTime < Modulus
               => timerCall'.passed = (realTime - markTime >= time)
          /\ UNCHANGED <<previousMillis, markTime>>]_timerVars

\* C14, witness: hasAmountTimePassed has answered true for a span in which
\* the counter wrapped, and the mark is still the one it found.
C14_Witness ==
  /\ timerCall.op = "hasAmountTimePassed"
  /\ timerCall.at % Modulus < timerCall.since % Modulus
  /\ timerCall.at - timerCall.since < Modulus
  /\ timerCall.arg > 0
  /\ timerCall.passed
  /\ markTime = timerCall.since
  /\ previousMillis = timerCall.since % Modulus

\* C15: getMillis returns the elapsed time millisSinceLast would return at
\* that instant, and leaves the mark as it was.
C15_PeekElapsed ==
  [][getMillis
      => /\ timerCall'.ret = unsignedSub(millis, previousMillis)
         /\ UNCHANGED <<previousMillis, markTime>>]_timerVars

-----------------------------------------------------------------------------
(* Properties of the accelerometer                                         *)

\* C16: isFlipped() is false while the estimator is not Active
\* (uninitialized, calibrating or priming, unavailable); when Active it is
\* true iff |pitch| or |roll| of the published orientation exceeds
\* TILT_ANGLE_MAX.
C16_FlippedOnlyWhenActive ==
  /\ estimatorState # "Active" => ~isFlipped
  /\ estimatorState = "Active" =>
       (isFlipped <=> (abs(currentOrientation.pitch) > TILT_ANGLE_MAX
                         \/ abs(currentOrientation.roll) > TILT_ANGLE_MAX))

C18_HeadingInRange ==
  0 <= currentOrientation.heading /\ currentOrientation.heading < 360

\* C19: once the last GYRO_MEDIAN_SAMPLES samples were taken with the same
\* registers, every median is that reading and the published pitch and roll
\* are the ones derived from it.
C19_MedianStability ==
  streak >= GYRO_MEDIAN_SAMPLES
    => /\ medians(samples) = imu
       /\ currentOrientation.pitch = pitchOf(imu.ax, imu.ay, imu.az)
       /\ currentOrientation.roll = rollOf(imu.ay, imu.az)

\* C19, witness: a full window of samples of the reading pitched beyond the
\* threshold has been taken after other readings, and is published.
C19_Witness ==
  /\ streak >= GYRO_MEDIAN_SAMPLES
  /\ estimatorState = "Active"
  /\ imu.ax = -8
  /\ currentOrientation.pitch = 39

\* C20: a sampling tick on which neither the accelerometer nor the
\* magnetometer has fresh data leaves the published orientation as it was.
C20_SampleMissRetains ==
  [][(\E accel \in AccelData, mag \in MagData :
        ~accel[1] /\ ~mag[1] /\ sampleTick(accel, mag))
      => currentOrientation' = currentOrientation]_<<sensorVars, imuVars>>

-----------------------------------------------------------------------------
(* Properties of the handlers and of the status push                       *)

publishState(k) == [hook |-> "publish_message", topic |-> "/state", unit |-> k]

\* C23: every setState that changes the active state has published the new
\* kind on /state, after the onEnter of the target.
C23_PublishesNewKind ==
  [][\A k \in Kinds :
       (currentStateInstance' # currentStateInstance /\ setState(k))
       => \E i \in DOMAIN hookCalls' :
            /\ hookCalls'[i] = publishState(k)
            /\ \A j \in DOMAIN hookCalls' :
                 hookCalls'[j] = onEnter(currentStateInstance') => j < i]_vars

\* A step of a request without valid credentials to a state-changing or
\* actuator endpoint.
UnauthenticatedRequest ==
  \/ \E req \in StateRequests : ~req[1] /\ putState(req[1], req[2])
  \/ \E req \in DriveRequests : ~req[1] /\ manualForward(req[1], req[2])
  \/ \E req \in DriveRequests : ~req[1] /\ manualBackward(req[1], req[2])
  \/ manualStop(FALSE)
  \/ manualCutterOn(FALSE)
  \/ manualCutterOff(FALSE)

\* C28: a request for which isAuthenticated is false leaves the current
\* state, the table and the wheel and cutter commands unchanged.
C28_UnauthenticatedChangesNothing ==
  [][UnauthenticatedRequest
      => UNCHANGED <<currentStateInstance, stateLookup, actuatorVars>>]_vars

-----------------------------------------------------------------------------
(* Properties of the start-up and of the windows of the accelerometer      *)

\* C24: on a successful start the calibration runs before the priming, the
\* window is primed with GYRO_MEDIAN_SAMPLES readings before the estimator
\* is Active and the ticker samples, and neither isAvailable() nor
\* isFlipped() is true while the window is not fully primed.
C24_PrimedBeforeAvailable ==
  /\ primed > 0 => startPc \in {"prime", "active"}
  /\ (estimatorState = "Active" \/ tickerAttached)
       => primed = GYRO_MEDIAN_SAMPLES
  /\ (available \/ isFlipped) => primed = GYRO_MEDIAN_SAMPLES

\* The window of an axis from the oldest sample to the newest, index being
\* the slot the next sample goes to.
ring(window, index) ==
  [i \in 1 .. GYRO_MEDIAN_SAMPLES |->
     window[((index + i - 1) % GYRO_MEDIAN_SAMPLES) + 1]]

\* C25: the index is within the window; a sample writes the registers of
\* every axis at the slot of the index and nowhere else, then advances the
\* index by one modulo the window: the window of each axis drops its oldest
\* sample and gains the newest, so that after a window of samples it holds
\* the last GYRO_MEDIAN_SAMPLES samples.
C25_RingBuffer ==
  [][/\ medianIndex \in 0 .. GYRO_MEDIAN_SAMPLES - 1
     /\ medianIndex' \in 0 .. GYRO_MEDIAN_SAMPLES - 1
     /\ (available /\ \E accel \in AccelData, mag \in MagData :
                        getReadings(accel, mag))
          => /\ medianIndex' = (medianIndex + 1) % GYRO_MEDIAN_SAMPLES
             /\ \A a \in Axes :
                  /\ samples'[a][medianIndex + 1] = imu'[a]
                  /\ \A i \in 1 .. GYRO_MEDIAN_SAMPLES :
                       i # medianIndex + 1 => samples'[a][i] = samples[a][i]
                  /\ ring(samples'[a], medianIndex')
                       = Tail(ring(samples[a], medianIndex)) \o <<imu'[a]>>
    ]_<<sensorVars, imuVars>>

\* C25, witness: after the priming, a sample of the ticker has overwritten
\* the oldest slot of the window, the two others keep the samples primed.
C25_Witness ==
  /\ estimatorState = "Active"
  /\ medianIndex = 1
  /\ samples.ax[1] = -8
  /\ samples.ax[2] = 0
  /\ samples.ax[GYRO_MEDIAN_SAMPLES] = -7

\* C21: whatever the interleaving of the sampling with a reader, the triple
\* the reader has copied is the orientation of one sample, the latest
\* finished one or the one being stored, never a mix of two.
C21_ReaderSeesOneSample ==
  orientCopy \in orientSamples

-----------------------------------------------------------------------------
(* Properties of the status push                                           *)

\* C26: a call of collectAndPushNewStatus sends a status on the web socket
\* exactly when a tracked field differs from the cached status (the uptime
\* is not one of them), and leaves the cached state name equal to the name
\* of the controller's current state.
C26_PushIffTrackedChange ==
  [][collectAndPushNewStatus
      => /\ ~panicked'
         /\ pushed'.ws <=> (\E f \in TrackedFields :
                              currentStatus[f] # statusReadings[f])
         /\ currentStatus'.state = getStateName(currentStateInstance')
    ]_<<vars, pushVars>>

\* C27: any two consecutive publications on /status are more than 10
\* seconds of uptime apart.
C27_PublicationsTenSecondsApart ==
  Len(mqttLog) = 2 => mqttLog[2] - mqttLog[1] > 10

=============================================================================
